---- MODULE Spec2Model ----
(***************************************************************************)
(* A model of the two fault-tolerance scripts of the repository:           *)
(*                                                                         *)
(*   src/circuitbreaker_pattern.py     class CircuitBreaker                *)
(*   src/fault_tolerance_no_outage.py  timeout(), fetch_and_process_data() *)
(*                                                                         *)
(* The protected operation (func, requests.get ...) is an external         *)
(* collaborator: each invocation nondeterministically returns a value or   *)
(* raises, after some time has passed on the clock.                        *)
(***************************************************************************)
EXTENDS Integers, Sequences, FiniteSets, TLC

(***************************************************************************)
(* Bounds of the model.                                                    *)
(***************************************************************************)
\* failure_threshold is drawn from 0..MaxThreshold (0: __init__ validates nothing)
MaxThreshold == 3
\* recovery_timeout is drawn from -1..MaxRecoveryTimeout (__init__ validates nothing)
MaxRecoveryTimeout == 1
\* calls made on one breaker in one behaviour
MaxCalls == 5
\* the clock runs from 0 to MaxTime
MaxTime == 4
\* calls made, and time passing, when two threads share the breaker
MaxConcCalls == 4
MaxConcTime == 2
\* max_retries is drawn from -1..MaxRetries (nothing validates the argument)
MaxRetries == 3
\* timeout_seconds is drawn from 0..MaxTimeoutSeconds
MaxTimeoutSeconds == 1

(***************************************************************************)
(* last_failure_time = None (circuitbreaker_pattern.py line 9) is written  *)
(* as a value no clock reading takes.                                      *)
(***************************************************************************)
None == -1

VARIABLES
    \* ---- CircuitBreaker fields (circuitbreaker_pattern.py lines 6-10)
    failure_threshold,
    recovery_timeout,
    failure_count,
    last_failure_time,
    state,
    \* ---- time.time()
    now,
    \* ---- the threads that use the breaker, and where each is inside call()
    callers,
    pc,          \* "idle" | "call_func" | "reset" | "rf_load" | "rf_store" | "rf_check"
    loaded,      \* the value of self.failure_count read by "self.failure_count += 1"
    outcome,     \* how the caller's last call ended: "none" | "value" | "op_error" | "circuit_open"
    \* ---- history variables (not program state)
    probe,       \* the caller's current/last call made the OPEN -> HALF-OPEN transition
    raised_at,   \* clock reading when the caller's operation last raised
    hist         \* outcomes of the completed calls, oldest first

bvars == <<failure_threshold, recovery_timeout, failure_count, last_failure_time,
           state, now, callers, pc, loaded, outcome, probe, raised_at, hist>>

\* ---- what passes through call(): func's value or exception, and what call
\* ---- hands to its own caller
VARIABLES
    result,      \* per caller: what func produced (line 20), held until call ends
    delivered    \* per caller: what its current/last call returned or raised

cvars == <<result, delivered>>

\* ---- fetch_and_process_data (fault_tolerance_no_outage.py lines 28-57)
VARIABLES
    max_retries,        \* argument
    timeout_seconds,    \* argument
    attempt,            \* line 38
    start_time,         \* timeout(), line 20
    rpc,                \* "loop" | "attempt" | "sleep" | "done"
    ret,                \* what the call produced: "none" until it ends
    \* ---- history variables (not program state)
    exit_line,          \* the source line of the return statement taken (0: none yet)
    attempts,           \* one record per finished attempt, oldest first
    sleeps              \* the arguments of the time.sleep calls made, oldest first

rvars == <<max_retries, timeout_seconds, attempt, start_time, rpc, ret,
           exit_line, attempts, sleeps>>

vars == <<bvars, cvars, rvars>>

(***************************************************************************)
(* func (line 20) is taken to return or to raise an Exception, and the     *)
(* body of the with block (fault_tolerance_no_outage.py lines 43-46)       *)
(* likewise; a BaseException that is no Exception (KeyboardInterrupt,      *)
(* SystemExit) is not an outcome of the operation.                         *)
(***************************************************************************)

\* values func may return (line 41 of the script returns the first)
FuncValues == {"Success!", "another value"}

\* messages of the exceptions func may raise (line 40 raises the first)
FuncErrors == {"Service failed!", "another failure"}

\* what a call produces
Nothing == [kind |-> "none", what |-> ""]
Returned(v) == [kind |-> "return", what |-> v]
Raised(m) == [kind |-> "raise", what |-> m]

\* line 17: raise Exception("Circuit is OPEN. Call blocked.")
CircuitOpenError == Raised("Circuit is OPEN. Call blocked.")

(***************************************************************************)
(* CircuitBreaker.__init__ (lines 5-10), with the arguments drawn from the *)
(* configuration ranges, used by the given set of threads.                 *)
(***************************************************************************)
BreakerInit(threads) ==
    /\ failure_threshold \in 0..MaxThreshold
    /\ recovery_timeout \in (-1)..MaxRecoveryTimeout
    /\ failure_count = 0
    /\ last_failure_time = None
    /\ state = "CLOSED"
    /\ now = 0
    /\ callers = threads
    /\ pc = [t \in threads |-> "idle"]
    /\ loaded = [t \in threads |-> 0]
    /\ outcome = [t \in threads |-> "none"]
    /\ probe = [t \in threads |-> FALSE]
    /\ raised_at = [t \in threads |-> None]
    /\ hist = <<>>
    /\ result = [t \in threads |-> Nothing]
    /\ delivered = [t \in threads |-> Nothing]

\* fault variant of RecoveryElapsed: >= where line 14 has >
RecoveryElapsedGE == now - last_failure_time >= recovery_timeout
\* line 14: time.time() - self.last_failure_time > self.recovery_timeout
RecoveryElapsed == now - last_failure_time > recovery_timeout

\* fault variant of ThresholdReached: > where line 30 has >=
ThresholdReachedGT(c) == c > failure_threshold
\* line 30: self.failure_count >= self.failure_threshold
ThresholdReached(c) == c >= failure_threshold

(***************************************************************************)
(* call, lines 13-17: the gate.  A blocked call raises at line 17 and ends *)
(* there; otherwise control reaches line 20 and func is invoked.           *)
(***************************************************************************)
\* fault variant of call_gate: line 15 left out, the probe runs with state OPEN
call_gate_no_half_open(t) ==
    /\ pc[t] = "idle"
    /\ Len(hist) < MaxCalls
    /\ IF state = "OPEN"
       THEN IF RecoveryElapsed
            THEN /\ state' = state
                 /\ pc' = [pc EXCEPT ![t] = "call_func"]
                 /\ probe' = [probe EXCEPT ![t] = TRUE]
                 /\ delivered' = [delivered EXCEPT ![t] = Nothing]
                 /\ UNCHANGED <<outcome, hist>>
            ELSE /\ outcome' = [outcome EXCEPT ![t] = "circuit_open"]
                 /\ hist' = Append(hist, "circuit_open")
                 /\ probe' = [probe EXCEPT ![t] = FALSE]
                 /\ delivered' = [delivered EXCEPT ![t] = CircuitOpenError]
                 /\ UNCHANGED <<state, pc>>
       ELSE /\ pc' = [pc EXCEPT ![t] = "call_func"]
            /\ probe' = [probe EXCEPT ![t] = FALSE]
            /\ delivered' = [delivered EXCEPT ![t] = Nothing]
            /\ UNCHANGED <<state, outcome, hist>>
    /\ UNCHANGED <<failure_threshold, recovery_timeout, failure_count,
                   last_failure_time, now, callers, loaded, raised_at>>
    /\ UNCHANGED result
    /\ UNCHANGED rvars
\* fault variant of call_gate: a rejected call is stamped as a failure
call_gate_rejection_stamps(t) ==
    /\ pc[t] = "idle"
    /\ Len(hist) < MaxCalls
    /\ IF state = "OPEN"
       THEN IF RecoveryElapsed
            THEN /\ state' = "HALF-OPEN"
                 /\ pc' = [pc EXCEPT ![t] = "call_func"]
                 /\ probe' = [probe EXCEPT ![t] = TRUE]
                 /\ delivered' = [delivered EXCEPT ![t] = Nothing]
                 /\ UNCHANGED <<outcome, hist, last_failure_time>>
            ELSE /\ outcome' = [outcome EXCEPT ![t] = "circuit_open"]
                 /\ hist' = Append(hist, "circuit_open")
                 /\ probe' = [probe EXCEPT ![t] = FALSE]
                 /\ delivered' = [delivered EXCEPT ![t] = CircuitOpenError]
                 /\ last_failure_time' = now
                 /\ UNCHANGED <<state, pc>>
       ELSE /\ pc' = [pc EXCEPT ![t] = "call_func"]
            /\ probe' = [probe EXCEPT ![t] = FALSE]
            /\ delivered' = [delivered EXCEPT ![t] = Nothing]
            /\ UNCHANGED <<state, outcome, hist, last_failure_time>>
    /\ UNCHANGED <<failure_threshold, recovery_timeout, failure_count,
                   now, callers, loaded, raised_at>>
    /\ UNCHANGED result
    /\ UNCHANGED rvars
call_gate(t) ==
    /\ pc[t] = "idle"
    /\ Len(hist) < MaxCalls
    /\ IF state = "OPEN"
       THEN IF RecoveryElapsed
            THEN /\ state' = "HALF-OPEN"
                 /\ pc' = [pc EXCEPT ![t] = "call_func"]
                 /\ probe' = [probe EXCEPT ![t] = TRUE]
                 /\ delivered' = [delivered EXCEPT ![t] = Nothing]
                 /\ UNCHANGED <<outcome, hist>>
            ELSE /\ outcome' = [outcome EXCEPT ![t] = "circuit_open"]
                 /\ hist' = Append(hist, "circuit_open")
                 /\ probe' = [probe EXCEPT ![t] = FALSE]
                 /\ delivered' = [delivered EXCEPT ![t] = CircuitOpenError]
                 /\ UNCHANGED <<state, pc>>
       ELSE /\ pc' = [pc EXCEPT ![t] = "call_func"]
            /\ probe' = [probe EXCEPT ![t] = FALSE]
            /\ delivered' = [delivered EXCEPT ![t] = Nothing]
            /\ UNCHANGED <<state, outcome, hist>>
    /\ UNCHANGED <<failure_threshold, recovery_timeout, failure_count,
                   last_failure_time, now, callers, loaded, raised_at>>
    /\ UNCHANGED result
    /\ UNCHANGED rvars

\* line 20: func(*args, **kwargs) returns; control goes on to line 21
func_returns(t) ==
    /\ pc[t] = "call_func"
    /\ pc' = [pc EXCEPT ![t] = "reset"]
    /\ \E v \in FuncValues : result' = [result EXCEPT ![t] = Returned(v)]
    /\ UNCHANGED <<failure_threshold, recovery_timeout, failure_count,
                   last_failure_time, state, now, callers, loaded, outcome,
                   probe, raised_at, hist>>
    /\ UNCHANGED delivered
    /\ UNCHANGED rvars

\* line 20: func raises an Exception; control goes to lines 23-24
func_raises(t) ==
    /\ pc[t] = "call_func"
    /\ pc' = [pc EXCEPT ![t] = "rf_load"]
    /\ \E m \in FuncErrors : result' = [result EXCEPT ![t] = Raised(m)]
    /\ raised_at' = [raised_at EXCEPT ![t] = now]
    /\ UNCHANGED <<failure_threshold, recovery_timeout, failure_count,
                   last_failure_time, state, now, callers, loaded, outcome,
                   probe, hist>>
    /\ UNCHANGED delivered
    /\ UNCHANGED rvars

(***************************************************************************)
(* _reset (lines 33-35), called at line 21, then "return result" (line 22) *)
(***************************************************************************)
\* fault variant of _reset: line 34 left out
_reset_keeps_count(t) ==
    /\ pc[t] = "reset"
    /\ state' = "CLOSED"
    /\ pc' = [pc EXCEPT ![t] = "idle"]
    /\ outcome' = [outcome EXCEPT ![t] = "value"]
    /\ hist' = Append(hist, "value")
    /\ UNCHANGED <<failure_threshold, recovery_timeout, failure_count,
                   last_failure_time, now, callers, loaded, probe, raised_at>>
    /\ delivered' = [delivered EXCEPT ![t] = result[t]]
    /\ result' = [result EXCEPT ![t] = Nothing]
    /\ UNCHANGED rvars
\* fault variant of _reset: it also clears last_failure_time
_reset_clears_stamp(t) ==
    /\ pc[t] = "reset"
    /\ failure_count' = 0
    /\ state' = "CLOSED"
    /\ pc' = [pc EXCEPT ![t] = "idle"]
    /\ outcome' = [outcome EXCEPT ![t] = "value"]
    /\ hist' = Append(hist, "value")
    /\ last_failure_time' = None
    /\ UNCHANGED <<failure_threshold, recovery_timeout,
                   now, callers, loaded, probe, raised_at>>
    /\ delivered' = [delivered EXCEPT ![t] = result[t]]
    /\ result' = [result EXCEPT ![t] = Nothing]
    /\ UNCHANGED rvars
_reset(t) ==
    /\ pc[t] = "reset"
    /\ failure_count' = 0
    /\ state' = "CLOSED"
    /\ pc' = [pc EXCEPT ![t] = "idle"]
    /\ outcome' = [outcome EXCEPT ![t] = "value"]
    /\ hist' = Append(hist, "value")
    /\ UNCHANGED <<failure_threshold, recovery_timeout, last_failure_time,
                   now, callers, loaded, probe, raised_at>>
    /\ delivered' = [delivered EXCEPT ![t] = result[t]]
    /\ result' = [result EXCEPT ![t] = Nothing]
    /\ UNCHANGED rvars

(***************************************************************************)
(* _record_failure (lines 27-31), called at line 24.                       *)
(* "self.failure_count += 1" reads the field, adds, and writes it back:    *)
(* rf_load is the read, rf_store the write together with line 29, and      *)
(* rf_check lines 30-31 followed by "raise e" (line 25).                   *)
(***************************************************************************)
rf_load(t) ==
    /\ pc[t] = "rf_load"
    /\ loaded' = [loaded EXCEPT ![t] = failure_count]
    /\ pc' = [pc EXCEPT ![t] = "rf_store"]
    /\ UNCHANGED <<failure_threshold, recovery_timeout, failure_count,
                   last_failure_time, state, now, callers, outcome, probe,
                   raised_at, hist>>
    /\ UNCHANGED cvars
    /\ UNCHANGED rvars

\* fault variant of rf_store: "=+ 1" where line 28 has "+= 1"
rf_store_assign_one(t) ==
    /\ pc[t] = "rf_store"
    /\ failure_count' = 1
    /\ last_failure_time' = now
    /\ pc' = [pc EXCEPT ![t] = "rf_check"]
    /\ UNCHANGED <<failure_threshold, recovery_timeout, state, now, callers,
                   loaded, outcome, probe, raised_at, hist>>
    /\ UNCHANGED cvars
    /\ UNCHANGED rvars
\* fault variant of rf_store: line 29 stamps the first failure only
rf_store_no_stamp(t) ==
    /\ pc[t] = "rf_store"
    /\ failure_count' = loaded[t] + 1
    /\ last_failure_time' = IF last_failure_time = None THEN now ELSE last_failure_time
    /\ pc' = [pc EXCEPT ![t] = "rf_check"]
    /\ UNCHANGED <<failure_threshold, recovery_timeout, state, now, callers,
                   loaded, outcome, probe, raised_at, hist>>
    /\ UNCHANGED cvars
    /\ UNCHANGED rvars
rf_store(t) ==
    /\ pc[t] = "rf_store"
    /\ failure_count' = loaded[t] + 1
    /\ last_failure_time' = now
    /\ pc' = [pc EXCEPT ![t] = "rf_check"]
    /\ UNCHANGED <<failure_threshold, recovery_timeout, state, now, callers,
                   loaded, outcome, probe, raised_at, hist>>
    /\ UNCHANGED cvars
    /\ UNCHANGED rvars

\* fault variant of rf_check: line 25 raising a new exception instead of e
rf_check_wraps_error(t) ==
    /\ pc[t] = "rf_check"
    /\ state' = IF ThresholdReached(failure_count) THEN "OPEN" ELSE state
    /\ pc' = [pc EXCEPT ![t] = "idle"]
    /\ outcome' = [outcome EXCEPT ![t] = "op_error"]
    /\ hist' = Append(hist, "op_error")
    /\ UNCHANGED <<failure_threshold, recovery_timeout, failure_count,
                   last_failure_time, now, callers, loaded, probe, raised_at>>
    /\ delivered' = [delivered EXCEPT ![t] = Raised("call failed")]
    /\ result' = [result EXCEPT ![t] = Nothing]
    /\ UNCHANGED rvars
\* fault variant of rf_check: line 30 trips the breaker only from CLOSED
rf_check_only_from_closed(t) ==
    /\ pc[t] = "rf_check"
    /\ state' = IF state = "CLOSED" /\ ThresholdReached(failure_count) THEN "OPEN" ELSE state
    /\ pc' = [pc EXCEPT ![t] = "idle"]
    /\ outcome' = [outcome EXCEPT ![t] = "op_error"]
    /\ hist' = Append(hist, "op_error")
    /\ UNCHANGED <<failure_threshold, recovery_timeout, failure_count,
                   last_failure_time, now, callers, loaded, probe, raised_at>>
    /\ delivered' = [delivered EXCEPT ![t] = result[t]]
    /\ result' = [result EXCEPT ![t] = Nothing]
    /\ UNCHANGED rvars
rf_check(t) ==
    /\ pc[t] = "rf_check"
    /\ state' = IF ThresholdReached(failure_count) THEN "OPEN" ELSE state
    /\ pc' = [pc EXCEPT ![t] = "idle"]
    /\ outcome' = [outcome EXCEPT ![t] = "op_error"]
    /\ hist' = Append(hist, "op_error")
    /\ UNCHANGED <<failure_threshold, recovery_timeout, failure_count,
                   last_failure_time, now, callers, loaded, probe, raised_at>>
    /\ delivered' = [delivered EXCEPT ![t] = result[t]]
    /\ result' = [result EXCEPT ![t] = Nothing]
    /\ UNCHANGED rvars

(***************************************************************************)
(* The clock.  Time passes between calls and while an operation runs; the  *)
(* breaker's own bookkeeping statements take no measurable time.           *)
(***************************************************************************)
Tick ==
    /\ now < MaxTime
    /\ \A t \in callers : pc[t] \in {"idle", "call_func"}
    /\ now' = now + 1
    /\ UNCHANGED <<failure_threshold, recovery_timeout, failure_count,
                   last_failure_time, state, callers, pc, loaded, outcome,
                   probe, raised_at, hist>>
    /\ UNCHANGED cvars
    /\ UNCHANGED rvars

(***************************************************************************)
(* fault_tolerance_no_outage.py                                            *)
(***************************************************************************)
\* line 39: the safe fallback
fallback_data == [status |-> "degraded", data |-> <<>>]

\* what response.json() (line 46) may produce
JsonValues == {[status |-> "ok", data |-> <<1>>], [status |-> "ok", data |-> <<2>>]}

\* ret before the function has returned
NoResult == [status |-> "", data |-> <<>>]

(***************************************************************************)
(* What the body of the with block (lines 43-46) may raise: a              *)
(* requests.RequestException, a TimeoutError, or any other Exception       *)
(* (a ValueError of response.json(), ...).                                 *)
(***************************************************************************)
ExceptionKinds == {"RequestException", "TimeoutError", "Exception"}

(***************************************************************************)
(* timeout(), lines 23-27: an exception leaving the body later than        *)
(* `seconds` after start_time is replaced by TimeoutError, any other is    *)
(* re-raised as it is.  A body that returns is not examined at all.        *)
(***************************************************************************)
timeout_reraise(e) ==
    IF now - start_time > timeout_seconds THEN "TimeoutError" ELSE e

\* fault variant of Retryable: line 47 catching every Exception
Retryable_all(e) == TRUE
\* line 47: except (requests.RequestException, TimeoutError)
Retryable(e) == e \in {"RequestException", "TimeoutError"}

\* fault variant of CaughtUnexpected: lines 54-56 left out
CaughtUnexpected_none(e) == FALSE
\* line 54: except Exception
CaughtUnexpected(e) == e \in ExceptionKinds

\* fault variant of backoff: the delay taken before attempt was incremented
backoff_before_increment(a) == 2 ^ (a - 1)
\* line 53: 2 ** attempt
backoff(a) == 2 ^ a

\* line 50: attempt == max_retries
Exhausted(a) == a = max_retries

\* fault variant of LoopCondition: <= where line 40 has <
LoopCondition_le(a) == a <= max_retries
\* line 40: attempt < max_retries
LoopCondition(a) == a < max_retries

\* the breaker is not used by fetch_and_process_data
BreakerUnused ==
    /\ failure_threshold = 3
    /\ recovery_timeout = 5
    /\ failure_count = 0
    /\ last_failure_time = None
    /\ state = "CLOSED"
    /\ callers = {}
    /\ pc = <<>>
    /\ loaded = <<>>
    /\ outcome = <<>>
    /\ probe = <<>>
    /\ raised_at = <<>>
    /\ hist = <<>>
    /\ result = <<>>
    /\ delivered = <<>>

\* fetch_and_process_data is not called by the breaker script
RetryUnused ==
    /\ max_retries = 0
    /\ timeout_seconds = 0
    /\ attempt = 0
    /\ start_time = 0
    /\ rpc = "done"
    /\ ret = NoResult
    /\ exit_line = 0
    /\ attempts = <<>>
    /\ sleeps = <<>>

(***************************************************************************)
(* fetch_and_process_data is entered (lines 28, 38-39) with arguments      *)
(* drawn from the configuration ranges; nothing validates them.            *)
(***************************************************************************)
RetryInit ==
    /\ max_retries \in (-1)..MaxRetries
    /\ timeout_seconds \in 0..MaxTimeoutSeconds
    /\ attempt = 0
    /\ start_time = 0
    /\ rpc = "loop"
    /\ ret = NoResult
    /\ exit_line = 0
    /\ attempts = <<>>
    /\ sleeps = <<>>
    /\ now = 0

\* line 40 (condition true), line 42 and timeout() line 20
attempt_begin ==
    /\ rpc = "loop"
    /\ LoopCondition(attempt)
    /\ start_time' = now
    /\ rpc' = "attempt"
    /\ UNCHANGED <<max_retries, timeout_seconds, attempt, ret, exit_line,
                   attempts, sleeps, now>>
    /\ UNCHANGED <<failure_threshold, recovery_timeout, failure_count,
                   last_failure_time, state, callers, pc, loaded, outcome,
                   probe, raised_at, hist>>
    /\ UNCHANGED cvars

\* line 40 (condition false), line 57
loop_exit ==
    /\ rpc = "loop"
    /\ ~LoopCondition(attempt)
    /\ ret' = fallback_data
    /\ exit_line' = 57
    /\ rpc' = "done"
    /\ UNCHANGED <<max_retries, timeout_seconds, attempt, start_time,
                   attempts, sleeps, now>>
    /\ UNCHANGED <<failure_threshold, recovery_timeout, failure_count,
                   last_failure_time, state, callers, pc, loaded, outcome,
                   probe, raised_at, hist>>
    /\ UNCHANGED cvars

(***************************************************************************)
(* Time passes while the body of the with block runs.  Nothing interrupts  *)
(* the body at the deadline, so it may run past it: the model lets it run  *)
(* up to one clock unit beyond timeout_seconds.                            *)
(***************************************************************************)
op_tick ==
    /\ rpc = "attempt"
    /\ now - start_time <= timeout_seconds
    /\ now' = now + 1
    /\ UNCHANGED rvars
    /\ UNCHANGED <<failure_threshold, recovery_timeout, failure_count,
                   last_failure_time, state, callers, pc, loaded, outcome,
                   probe, raised_at, hist>>
    /\ UNCHANGED cvars

\* lines 43-46: the body completes and line 46 returns the decoded value
op_returns(v) ==
    /\ rpc = "attempt"
    /\ ret' = v
    /\ exit_line' = 46
    /\ rpc' = "done"
    /\ attempts' = Append(attempts, [raw |-> "ok", seen |-> "ok", took |-> now - start_time])
    /\ UNCHANGED <<max_retries, timeout_seconds, attempt, start_time, sleeps, now>>
    /\ UNCHANGED <<failure_threshold, recovery_timeout, failure_count,
                   last_failure_time, state, callers, pc, loaded, outcome,
                   probe, raised_at, hist>>
    /\ UNCHANGED cvars

(***************************************************************************)
(* The body raises k.  timeout() (lines 23-27) re-raises it or replaces it *)
(* by TimeoutError, and the except clauses of lines 47-56 handle what      *)
(* arrives: lines 48-52 for the retryable kinds, lines 55-56 for any other *)
(* Exception; an exception no clause matches leaves the function.          *)
(***************************************************************************)
op_raises(k) ==
    /\ rpc = "attempt"
    /\ LET e == timeout_reraise(k) IN
       /\ attempts' = Append(attempts, [raw |-> k, seen |-> e, took |-> now - start_time])
       /\ IF Retryable(e)
          THEN /\ attempt' = attempt + 1
               /\ IF Exhausted(attempt + 1)
                  THEN /\ ret' = fallback_data
                       /\ exit_line' = 52
                       /\ rpc' = "done"
                  ELSE /\ rpc' = "sleep"
                       /\ UNCHANGED <<ret, exit_line>>
          ELSE IF CaughtUnexpected(e)
          THEN /\ ret' = fallback_data
               /\ exit_line' = 56
               /\ rpc' = "done"
               /\ UNCHANGED attempt
          ELSE /\ ret' = [status |-> "raised", data |-> <<e>>]
               /\ rpc' = "done"
               /\ UNCHANGED <<attempt, exit_line>>
    /\ UNCHANGED <<max_retries, timeout_seconds, start_time, sleeps, now>>
    /\ UNCHANGED <<failure_threshold, recovery_timeout, failure_count,
                   last_failure_time, state, callers, pc, loaded, outcome,
                   probe, raised_at, hist>>
    /\ UNCHANGED cvars

\* line 53: time.sleep(2 ** attempt), then back to line 40
do_sleep ==
    /\ rpc = "sleep"
    /\ sleeps' = Append(sleeps, backoff(attempt))
    /\ now' = now + backoff(attempt)
    /\ rpc' = "loop"
    /\ UNCHANGED <<max_retries, timeout_seconds, attempt, start_time, ret,
                   exit_line, attempts>>
    /\ UNCHANGED <<failure_threshold, recovery_timeout, failure_count,
                   last_failure_time, state, callers, pc, loaded, outcome,
                   probe, raised_at, hist>>
    /\ UNCHANGED cvars

(***************************************************************************)
(* Specifications                                                          *)
(***************************************************************************)
\* one breaker used by a single thread, as in the script's loop (lines 44-51)
Init == BreakerInit({1}) /\ RetryUnused

Next ==
    \/ \E t \in callers : call_gate(t)
    \/ \E t \in callers : func_returns(t)
    \/ \E t \in callers : func_raises(t)
    \/ \E t \in callers : _reset(t)
    \/ \E t \in callers : rf_load(t)
    \/ \E t \in callers : rf_store(t)
    \/ \E t \in callers : rf_check(t)
    \/ Tick

Spec == Init /\ [][Next]_vars

(***************************************************************************)
(* One call of fetch_and_process_data (lines 59-60).  The function is      *)
(* sequential code: once called it keeps executing, and every attempt's    *)
(* body ends (requests.get has its own timeout), hence the weak fairness.  *)
(***************************************************************************)
InitRetry == BreakerUnused /\ RetryInit

NextRetry ==
    \/ attempt_begin
    \/ loop_exit
    \/ op_tick
    \/ \E v \in JsonValues : op_returns(v)
    \/ \E k \in ExceptionKinds : op_raises(k)
    \/ do_sleep

RetryEnds == (\E v \in JsonValues : op_returns(v)) \/ (\E k \in ExceptionKinds : op_raises(k))

SpecRetry ==
    /\ InitRetry
    /\ [][NextRetry]_vars
    /\ WF_vars(attempt_begin)
    /\ WF_vars(loop_exit)
    /\ WF_vars(RetryEnds)
    /\ WF_vars(do_sleep)

(***************************************************************************)
(* Properties of the circuit breaker                                       *)
(***************************************************************************)
\* no thread is inside call()
Quiescent == \A t \in callers : pc[t] = "idle"

\* the number of entries of h equal to x
RECURSIVE Occurrences(_, _)
Occurrences(h, x) ==
    IF h = <<>> THEN 0
    ELSE (IF Head(h) = x THEN 1 ELSE 0) + Occurrences(Tail(h), x)

\* the number of failed operations of h after its last successful one
RECURSIVE TrailingFailures(_)
TrailingFailures(h) ==
    IF h = <<>> THEN 0
    ELSE LET last == h[Len(h)]
             rest == SubSeq(h, 1, Len(h) - 1)
         IN  IF last = "value" THEN 0
             ELSE (IF last = "op_error" THEN 1 ELSE 0) + TrailingFailures(rest)

\* this step is thread t entering call(): it leaves "idle" or is rejected at once
CallStep(t) == pc[t] = "idle" /\ (pc'[t] # "idle" \/ hist' # hist)

\* this step is thread t's call ending with outcome o
CallEnds(t, o) == pc[t] # "idle" /\ pc'[t] = "idle" /\ outcome'[t] = o

(***************************************************************************)
(* C1.  A fresh breaker with failure_threshold = N >= 1 whose operation    *)
(* has failed on every call made so far is CLOSED as long as fewer than N  *)
(* failing calls have returned (also while the N-th is still running) and  *)
(* is OPEN once N or more have returned.                                   *)
(***************************************************************************)
Thm_C1 ==
    (failure_threshold >= 1 /\ Occurrences(hist, "value") = 0) =>
        LET k == Occurrences(hist, "op_error") IN
        /\ k < failure_threshold => state = "CLOSED"
        /\ (k >= failure_threshold /\ Quiescent) => state = "OPEN"

Wit_C1 ==
    /\ failure_threshold = 3
    /\ hist = <<"op_error", "op_error", "op_error">>
    /\ state = "OPEN"
    /\ Quiescent

(***************************************************************************)
(* C2.  A call entered while the breaker is OPEN and                       *)
(* now - last_failure_time <= recovery_timeout (equality included) is      *)
(* rejected with the circuit-open error: the operation is not invoked and  *)
(* state, failure_count and last_failure_time keep their values.           *)
(***************************************************************************)
Thm_C2 ==
    [][\A t \in callers :
          (CallStep(t) /\ state = "OPEN"
                       /\ now - last_failure_time <= recovery_timeout)
          => /\ pc'[t] = "idle"
             /\ outcome'[t] = "circuit_open"
             /\ state' = state
             /\ failure_count' = failure_count
             /\ last_failure_time' = last_failure_time]_vars

\* a call was rejected exactly recovery_timeout (= 0) after the last failure
Wit_C2 ==
    /\ recovery_timeout = 0
    /\ state = "OPEN"
    /\ now = last_failure_time
    /\ pc[1] = "idle"
    /\ outcome[1] = "circuit_open"

(***************************************************************************)
(* C3.  A call entered while the breaker is OPEN and more than             *)
(* recovery_timeout after last_failure_time moves it to HALF-OPEN and      *)
(* invokes the operation; when that probe succeeds the call ends with the  *)
(* breaker CLOSED and failure_count 0, when it fails the call ends with    *)
(* the breaker OPEN and last_failure_time the time the probe failed.       *)
(***************************************************************************)
Thm_C3 ==
    [][\A t \in callers :
          /\ (CallStep(t) /\ state = "OPEN"
                          /\ now - last_failure_time > recovery_timeout)
             => (state' = "HALF-OPEN" /\ pc'[t] = "call_func" /\ probe'[t])
          /\ (probe[t] /\ CallEnds(t, "value"))
             => (state' = "CLOSED" /\ failure_count' = 0)
          /\ (probe[t] /\ CallEnds(t, "op_error"))
             => (state' = "OPEN" /\ last_failure_time' = raised_at'[t])
          /\ (probe[t] /\ pc[t] # "idle" /\ pc'[t] = "idle")
             => outcome'[t] \in {"value", "op_error"}]_vars

\* a probe has failed, later than the failure that opened the breaker
Wit_C3 ==
    /\ failure_threshold >= 1
    /\ probe[1]
    /\ pc[1] = "idle"
    /\ outcome[1] = "op_error"
    /\ state = "OPEN"
    /\ failure_count = failure_threshold + 1
    /\ last_failure_time = raised_at[1]
    /\ last_failure_time >= 2

(***************************************************************************)
(* C4 as stated: between calls, state = CLOSED implies failure_count = 0.  *)
(***************************************************************************)
CE_C4 == Quiescent => (state = "CLOSED" => failure_count = 0)

(***************************************************************************)
(* C4, amended: between calls, state = CLOSED implies that failure_count   *)
(* is 0 or below failure_threshold.                                        *)
(***************************************************************************)
Thm_C4 ==
    Quiescent =>
        (state = "CLOSED" => (failure_count = 0 \/ failure_count < failure_threshold))

\* two failures recorded and the breaker still closed
Wit_C4 ==
    /\ Quiescent
    /\ state = "CLOSED"
    /\ failure_threshold = 3
    /\ failure_count = 2

(***************************************************************************)
(* C5.  A call whose operation succeeded leaves failure_count = 0 and      *)
(* state = CLOSED, and the breaker is OPEN (or probing, HALF-OPEN) only    *)
(* when at least failure_threshold operations have failed since the last   *)
(* success.                                                                *)
(***************************************************************************)
Thm_C5 ==
    /\ \A t \in callers :
          (pc[t] = "idle" /\ outcome[t] = "value")
          => (failure_count = 0 /\ state = "CLOSED")
    /\ state \in {"OPEN", "HALF-OPEN"} =>
          TrailingFailures(hist) >= failure_threshold

\* failures on both sides of a success have not opened the breaker
Wit_C5 ==
    /\ failure_threshold = 2
    /\ hist = <<"op_error", "value", "op_error">>
    /\ state = "CLOSED"
    /\ failure_count = 1
    /\ Quiescent

(***************************************************************************)
(* Properties of fetch_and_process_data                                    *)
(***************************************************************************)
Done == rpc = "done"

\* the sum of a sequence of numbers
RECURSIVE Sum(_)
Sum(q) == IF q = <<>> THEN 0 ELSE Head(q) + Sum(Tail(q))

\* the clock time each finished attempt took
Took == [i \in 1..Len(attempts) |-> attempts[i].took]

\* operations invoked so far: the finished attempts and the one running
Invoked == Len(attempts) + (IF rpc = "attempt" THEN 1 ELSE 0)

\* max_retries as a number of attempts (a negative max_retries allows none)
Budget == IF max_retries > 0 THEN max_retries ELSE 0

Thm_C7 ==
    /\ Invoked <= Budget
    /\ (Done /\ \A i \in 1..Len(attempts) :
                    attempts[i].seen \in {"RequestException", "TimeoutError"})
       => Len(attempts) = Budget
    /\ \A i \in 1..Len(attempts) :
          attempts[i].seen = "ok" => (i = Len(attempts) /\ Done)

\* three attempts, all failed retryably
Wit_C7 ==
    /\ Done
    /\ max_retries = 3
    /\ Len(attempts) = 3
    /\ \A i \in 1..3 : attempts[i].seen \in {"RequestException", "TimeoutError"}

(***************************************************************************)
(* C8.  The k-th sleep of a call lasts 2^k, follows the k-th attempt,      *)
(* which failed retryably, and precedes attempt k+1, for k up to           *)
(* max_retries - 1; nothing is slept before the first attempt, after a     *)
(* success or after the last attempt, so a call that ends with its m-th    *)
(* attempt has slept 2^1 + ... + 2^(m-1) = 2^m - 2 in all, and that is     *)
(* all the time it spent outside its attempts.                             *)
(***************************************************************************)
Thm_C8 ==
    /\ \A k \in 1..Len(sleeps) :
          /\ sleeps[k] = 2 ^ k
          /\ k <= max_retries - 1
          /\ k <= Len(attempts)
          /\ attempts[k].seen \in {"RequestException", "TimeoutError"}
    /\ rpc \in {"loop", "sleep"} => Len(sleeps) = Len(attempts) - (IF rpc = "sleep" THEN 1 ELSE 0)
    /\ rpc = "attempt" => Len(sleeps) = Len(attempts)
    /\ Done =>
          /\ Len(attempts) = 0 => sleeps = <<>>
          /\ Len(attempts) >= 1 =>
                /\ Len(sleeps) = Len(attempts) - 1
                /\ Sum(sleeps) = 2 ^ Len(attempts) - 2
    /\ rpc # "attempt" => now = Sum(sleeps) + Sum(Took)

\* two timeouts, then a value: 2 + 4 = 6 units of backoff
Wit_C8 ==
    /\ Done
    /\ exit_line = 46
    /\ Len(attempts) = 3
    /\ attempts[1].seen = "TimeoutError"
    /\ attempts[2].seen = "TimeoutError"
    /\ sleeps = <<2, 4>>
    /\ Sum(sleeps) = 6

(***************************************************************************)
(* C9.  An attempt that ends in an error outside the retryable set is the  *)
(* last one: the call returns fallback_data from line 56, with no sleep    *)
(* after that attempt and the attempt counter not advanced by it.          *)
(***************************************************************************)
Thm_C9 ==
    \A i \in 1..Len(attempts) :
       attempts[i].seen \notin {"ok", "RequestException", "TimeoutError"} =>
          /\ i = Len(attempts)
          /\ Done
          /\ ret = fallback_data
          /\ exit_line = 56
          /\ Len(sleeps) = i - 1
          /\ attempt = i - 1

\* the second of three allowed attempts fails with an unexpected error
Wit_C9 ==
    /\ Done
    /\ max_retries = 3
    /\ Len(attempts) = 2
    /\ attempts[2].seen = "Exception"
    /\ exit_line = 56

(***************************************************************************)
(* C10 as stated: every attempt whose body has not completed within        *)
(* timeout_seconds is classified as a TimeoutError, whether the body then  *)
(* returns or raises; so no value produced after the deadline is returned  *)
(* as a success.                                                           *)
(***************************************************************************)
CE_C10 ==
    \A i \in 1..Len(attempts) :
       attempts[i].took > timeout_seconds => attempts[i].seen = "TimeoutError"

(***************************************************************************)
(* C11.  call never hides the outcome of the operation: a call that        *)
(* invoked func returns exactly the value func returned, or raises exactly *)
(* the exception func raised, after failure_count and last_failure_time    *)
(* were updated (and state, when the threshold is reached); the only       *)
(* exception call raises that func did not raise is the circuit-open       *)
(* rejection, and then func was not invoked.                               *)
(***************************************************************************)
Thm_C11 ==
    [][\A t \in callers :
          /\ CallEnds(t, "value")
             => (result[t].kind = "return" /\ delivered'[t] = result[t])
          /\ CallEnds(t, "op_error")
             => /\ result[t].kind = "raise"
                /\ delivered'[t] = result[t]
                /\ failure_count' >= 1
                /\ last_failure_time' = raised_at[t]
                /\ ThresholdReached(failure_count') => state' = "OPEN"
          /\ (pc[t] # "idle" /\ pc'[t] = "idle")
             => (delivered'[t] = result[t] /\ result[t] # Nothing)
          /\ (delivered'[t] # delivered[t] /\ delivered'[t].kind = "raise"
                                           /\ delivered'[t] # result[t])
             => /\ delivered'[t] = CircuitOpenError
                /\ pc[t] = "idle" /\ pc'[t] = "idle"
                /\ state = "OPEN"]_vars

\* the caller has received the second of the operation's exceptions
Wit_C11 ==
    /\ pc[1] = "idle"
    /\ outcome[1] = "op_error"
    /\ delivered[1] = Raised("another failure")
    /\ failure_count = 2

(***************************************************************************)
(* Concurrent use: two threads call the same breaker.  Nothing in the      *)
(* class takes a lock, so steps of the two calls interleave freely.        *)
(***************************************************************************)
InitConc ==
    /\ BreakerInit({1, 2})
    /\ RetryUnused
    /\ failure_threshold \in 1..2
    /\ recovery_timeout \in 0..1

NextConc ==
    \/ \E t \in callers : Len(hist) < MaxConcCalls /\ call_gate(t)
    \/ \E t \in callers : func_returns(t)
    \/ \E t \in callers : func_raises(t)
    \/ \E t \in callers : _reset(t)
    \/ \E t \in callers : rf_load(t)
    \/ \E t \in callers : rf_store(t)
    \/ \E t \in callers : rf_check(t)
    \/ now < MaxConcTime /\ Tick

SpecConc == InitConc /\ [][NextConc]_vars

\* thread t's probe operation is in flight
ProbeInFlight(t) == probe[t] /\ pc[t] = "call_func"

(***************************************************************************)
(* C12 as stated: while the operation of a probe is in flight (the breaker *)
(* left OPEN, the outcome is not recorded yet), a caller that arrives is   *)
(* not admitted: at most one operation is let through per OPEN period.     *)
(***************************************************************************)
CE_C12 ==
    [][\A t \in callers :
          (CallStep(t) /\ \E u \in callers \ {t} : ProbeInFlight(u))
          => pc'[t] # "call_func"]_vars

(***************************************************************************)
(* C19 as stated: no failure record is lost.  Once k calls whose           *)
(* operation failed have completed on a fresh breaker, with no successful  *)
(* call among them, failure_count is k, and the breaker is OPEN when k has *)
(* reached failure_threshold.                                              *)
(***************************************************************************)
CE_C19 ==
    (failure_threshold >= 1 /\ Quiescent /\ Occurrences(hist, "value") = 0) =>
        LET k == Occurrences(hist, "op_error") IN
        /\ failure_count = k
        /\ k >= failure_threshold => state = "OPEN"

(***************************************************************************)
(* C13 as stated: an invalid configuration is rejected at construction,    *)
(* so no call runs on a breaker with failure_threshold < 1 or              *)
(* recovery_timeout < 0.  (fetch_and_process_data likewise runs with       *)
(* max_retries < 0: see InitRetry.)                                        *)
(***************************************************************************)
CE_C13 ==
    (hist # <<>> \/ \E t \in callers : pc[t] # "idle") =>
        (failure_threshold >= 1 /\ recovery_timeout >= 0)

(***************************************************************************)
(* C14.  Used by one thread, the breaker starts CLOSED and its state       *)
(* changes only by CLOSED -> OPEN (a failing call ends with failure_count  *)
(* at the threshold), OPEN -> HALF-OPEN (a call entered more than          *)
(* recovery_timeout after the last failure), HALF-OPEN -> CLOSED (the      *)
(* probe succeeds) and HALF-OPEN -> OPEN (the probe fails); in particular  *)
(* never CLOSED -> HALF-OPEN and never OPEN -> CLOSED.                     *)
(***************************************************************************)
Thm_C14 ==
    /\ state = "CLOSED"
    /\ [][state' # state =>
            \/ /\ state = "CLOSED" /\ state' = "OPEN"
               /\ \E t \in callers : CallEnds(t, "op_error")
               /\ failure_count' >= failure_threshold
               /\ failure_threshold >= 1 => failure_count' = failure_threshold
            \/ /\ state = "OPEN" /\ state' = "HALF-OPEN"
               /\ \E t \in callers : CallStep(t)
               /\ now - last_failure_time > recovery_timeout
            \/ /\ state = "HALF-OPEN" /\ state' = "CLOSED"
               /\ \E t \in callers : probe[t] /\ CallEnds(t, "value")
            \/ /\ state = "HALF-OPEN" /\ state' = "OPEN"
               /\ \E t \in callers : probe[t] /\ CallEnds(t, "op_error")]_vars

\* the breaker went round: opened, probed, and the probe closed it
Wit_C14 ==
    /\ state = "CLOSED"
    /\ pc[1] = "idle"
    /\ probe[1]
    /\ outcome[1] = "value"
    /\ failure_threshold >= 1

(***************************************************************************)
(* C15.  With failure_threshold >= 1: whenever state = OPEN,               *)
(* last_failure_time is set and failure_count >= failure_threshold; and    *)
(* last_failure_time is unset exactly as long as no failure has been       *)
(* recorded (line 29 has not run).                                         *)
(***************************************************************************)
Thm_C15 ==
    failure_threshold >= 1 =>
        /\ state = "OPEN" =>
              (last_failure_time # None /\ failure_count >= failure_threshold)
        /\ last_failure_time = None <=>
              /\ Occurrences(hist, "op_error") = 0
              /\ \A t \in callers : pc[t] # "rf_check"

\* open after a failed probe, one failure above the threshold
Wit_C15 ==
    /\ failure_threshold = 2
    /\ state = "OPEN"
    /\ failure_count = 3
    /\ last_failure_time >= 1
    /\ Quiescent

(***************************************************************************)
(* C16.  Used by one thread, HALF-OPEN is transient: the state is          *)
(* HALF-OPEN only while the call that made the OPEN -> HALF-OPEN           *)
(* transition is still running, so whenever no call is in progress the     *)
(* state is CLOSED or OPEN.                                                *)
(***************************************************************************)
Thm_C16 ==
    /\ Quiescent => state \in {"CLOSED", "OPEN"}
    /\ state = "HALF-OPEN" => \E t \in callers : probe[t] /\ pc[t] # "idle"
    /\ \A t \in callers : (probe[t] /\ pc[t] # "idle") => state = "HALF-OPEN"

\* a failed probe has returned the breaker to OPEN
Wit_C16 ==
    /\ Quiescent
    /\ probe[1]
    /\ outcome[1] = "op_error"
    /\ state = "OPEN"
    /\ failure_threshold = 1
    /\ failure_count = 2

(***************************************************************************)
(* The breaker over the life of the process: calls never stop and the      *)
(* clock never stops.  Only time.time() - last_failure_time is ever read   *)
(* (line 14), so once the clock has reached MaxTime a further unit of time *)
(* is written as moving the recorded times one unit back instead, down to  *)
(* 0: a failure seen as MaxTime old is older than every recovery_timeout   *)
(* of the model.  The history keeps the last MaxLiveCalls calls.           *)
(***************************************************************************)
MaxLiveCalls == 2

\* func fails at most this many times between two successes
MaxFailureRun == 4

Back(x) == IF x = None THEN None ELSE IF x > 0 THEN x - 1 ELSE 0

TickLive ==
    /\ \A t \in callers : pc[t] \in {"idle", "call_func"}
    /\ IF now < MaxTime
       THEN /\ now' = now + 1
            /\ UNCHANGED <<last_failure_time, raised_at>>
       ELSE /\ now' = now
            /\ last_failure_time' = Back(last_failure_time)
            /\ raised_at' = [t \in callers |-> Back(raised_at[t])]
    /\ UNCHANGED <<failure_threshold, recovery_timeout, failure_count,
                   state, callers, pc, loaded, outcome, probe, hist>>
    /\ UNCHANGED cvars
    /\ UNCHANGED rvars

ForgetHistory ==
    /\ Len(hist) >= MaxLiveCalls
    /\ Quiescent
    /\ hist' = Tail(hist)
    /\ UNCHANGED <<failure_threshold, recovery_timeout, failure_count,
                   last_failure_time, state, now, callers, pc, loaded,
                   outcome, probe, raised_at>>
    /\ UNCHANGED cvars
    /\ UNCHANGED rvars

CallEntered == \E t \in callers : Len(hist) < MaxLiveCalls /\ call_gate(t)
FuncEnds ==
    \E t \in callers :
        \/ func_returns(t)
        \/ failure_count < MaxFailureRun /\ func_raises(t)
Bookkeeping ==
    \E t \in callers : _reset(t) \/ rf_load(t) \/ rf_store(t) \/ rf_check(t)

NextLive ==
    \/ CallEntered
    \/ FuncEnds
    \/ Bookkeeping
    \/ TickLive
    \/ ForgetHistory

(***************************************************************************)
(* Fairness: the clock keeps advancing, callers keep calling (the script's *)
(* loop, lines 46-51), func ends, and the statements of call are executed. *)
(***************************************************************************)
SpecLive ==
    /\ Init
    /\ [][NextLive]_vars
    /\ WF_vars(TickLive)
    /\ WF_vars(CallEntered)
    /\ WF_vars(FuncEnds)
    /\ WF_vars(Bookkeeping)
    /\ WF_vars(ForgetHistory)

(***************************************************************************)
(* C17.  The breaker has no terminal state: while the clock advances and   *)
(* calls keep coming, an OPEN breaker eventually lets a probe invoke the   *)
(* operation; a probe whose operation has succeeded closes the breaker;    *)
(* and the breaker never stays OPEN for ever.                              *)
(***************************************************************************)
Thm_C17 ==
    /\ (state = "OPEN") ~> (\E t \in callers : ProbeInFlight(t))
    /\ (\E t \in callers : probe[t] /\ pc[t] = "reset") ~> (state = "CLOSED")
    /\ []<>(state # "OPEN")

\* a probe is admitted when the clock has long passed MaxTime
Wit_C17 ==
    /\ ProbeInFlight(1)
    /\ state = "HALF-OPEN"
    /\ now = MaxTime
    /\ last_failure_time = 0
    /\ Len(hist) = MaxLiveCalls - 1

(***************************************************************************)
(* C18.  With max_retries = 0 fetch_and_process_data returns fallback_data *)
(* without running the body of the with block, and the return of line 57   *)
(* is reached only when max_retries = 0: for every max_retries >= 1 the    *)
(* function returns from inside the loop (lines 46, 52, 56).               *)
(***************************************************************************)
ZeroRetriesFallBack ==
    (max_retries = 0 /\ Done) =>
        (ret = fallback_data /\ attempts = <<>> /\ exit_line = 57)

ReturnsInsideLoop ==
    (max_retries >= 1 /\ Done /\ ret.status # "raised") =>
        exit_line \in {46, 52, 56}

CE_C18 ==
    /\ ZeroRetriesFallBack
    /\ ReturnsInsideLoop
    /\ exit_line = 57 => max_retries = 0

\* the same statement for the arguments the documentation allows
C18_ValidArguments ==
    /\ ZeroRetriesFallBack
    /\ ReturnsInsideLoop
    /\ (max_retries >= 0 /\ exit_line = 57) => max_retries = 0

(***************************************************************************)
(* fetch_and_process_data around a breaker.  The documentation lets the    *)
(* body of the with block (lines 43-45) be a call of CircuitBreaker.call   *)
(* whose func is the request: each attempt makes one call of the breaker,  *)
(* a value returned by line 22 is the value of the body, and an exception  *)
(* leaving call (line 17 or line 25) is the exception of the body.  The    *)
(* clock advances while func runs and during the sleeps of line 53.        *)
(***************************************************************************)
DefaultRecoveryTimeout == 5

InitComposed ==
    /\ \E rt \in {MaxRecoveryTimeout, DefaultRecoveryTimeout} :
           recovery_timeout = rt
    /\ failure_threshold \in 1..MaxThreshold
    /\ failure_count = 0
    /\ last_failure_time = None
    /\ state = "CLOSED"
    /\ callers = {1}
    /\ pc = [t \in {1} |-> "idle"]
    /\ loaded = [t \in {1} |-> 0]
    /\ outcome = [t \in {1} |-> "none"]
    /\ probe = [t \in {1} |-> FALSE]
    /\ raised_at = [t \in {1} |-> None]
    /\ hist = <<>>
    /\ result = [t \in {1} |-> Nothing]
    /\ delivered = [t \in {1} |-> Nothing]
    /\ RetryInit

\* the attempt's call of the breaker has not ended yet
CallPending == rpc = "attempt" /\ Len(hist) = Len(attempts)
\* the attempt's call of the breaker has ended
CallOver == rpc = "attempt" /\ Len(hist) = Len(attempts) + 1

\* the body of the with block executes CircuitBreaker.call
body_call ==
    /\ CallPending
    /\ \E t \in callers :
          \/ call_gate(t)
          \/ func_returns(t)
          \/ func_raises(t)
          \/ _reset(t)
          \/ rf_load(t)
          \/ rf_store(t)
          \/ rf_check(t)

\* the clock advances while func runs inside the attempt
body_tick ==
    /\ CallPending
    /\ \E t \in callers : pc[t] = "call_func"
    /\ op_tick

\* line 22 returned: the body has its value and line 46 returns
body_returns ==
    /\ CallOver
    /\ \E t \in callers : outcome[t] = "value"
    /\ \E v \in JsonValues : op_returns(v)

\* line 17 raises a plain Exception; line 25 re-raises what func raised
body_raises ==
    /\ CallOver
    /\ \/ /\ \E t \in callers : outcome[t] = "circuit_open"
          /\ op_raises("Exception")
       \/ /\ \E t \in callers : outcome[t] = "op_error"
          /\ \E k \in ExceptionKinds : op_raises(k)

NextComposed ==
    \/ attempt_begin
    \/ loop_exit
    \/ body_call
    \/ body_tick
    \/ body_returns
    \/ body_raises
    \/ do_sleep

SpecComposed == InitComposed /\ [][NextComposed]_vars

\* the last call of the breaker was rejected at line 17
Rejected == hist # <<>> /\ hist[Len(hist)] = "circuit_open"

(***************************************************************************)
(* C20.  When the breaker rejects the call of an attempt, func is not      *)
(* invoked by that call, and fetch_and_process_data does nothing more than *)
(* return fallback_data from line 56: no time passes, no sleep is taken,   *)
(* no further attempt is made, and the attempt counter is not increased.   *)
(***************************************************************************)
RejectionFailsFast ==
    Rejected =>
        /\ \A t \in callers : pc[t] = "idle"
        /\ \/ CallOver
           \/ /\ Done
              /\ ret = fallback_data
              /\ exit_line = 56
              /\ Len(attempts) = Len(hist)
              /\ attempts[Len(attempts)].seen = "Exception"
              /\ attempts[Len(attempts)].took = 0
              /\ Len(sleeps) = Len(attempts) - 1
              /\ attempt = Len(attempts) - 1

RejectionStep ==
    (hist' # hist /\ hist'[Len(hist')] = "circuit_open") =>
        \A t \in callers : pc[t] = "idle" /\ pc'[t] = "idle" /\ result' = result

AfterRejection ==
    Rejected =>
        /\ rpc' = "done"
        /\ now' = now
        /\ sleeps' = sleeps
        /\ hist' = hist
        /\ pc' = pc

====
